---- MODULE Spec2Model ----
(***************************************************************************)
(* Model of the content publish pipeline of src/scripts/content.ts:        *)
(* start -> validateInput -> contentCommit (clone, branch, build, diff,    *)
(* add+commit, push, create pull request, merge pull request).             *)
(*                                                                         *)
(* One run of the script is one behaviour.  Every await of the code is a   *)
(* step; the outcome of every external call (remote git server, file       *)
(* system, subprocess, REST API) is chosen nondeterministically.           *)
(***************************************************************************)
EXTENDS Integers, Sequences, FiniteSets, TLC

(***************************************************************************)
(* Bounds of the model.                                                    *)
(***************************************************************************)
\* pull request numbers the API may assign are 1..MaxPullNumber
MaxPullNumber == 2
\* the longest host, owner and repository name of a url
MaxPart == 3
\* the branch is named on one of the days 0..MaxDay after 1970-01-01
MaxDay == 3
\* the wall clock of two concurrent runs shows 0..MaxClock milliseconds
MaxClock == 2
\* instants (epoch milliseconds) at which the publish branch may be named
MaxNow == 2

(***************************************************************************)
(* Strings as sequences of characters (for the URL functions).             *)
(***************************************************************************)
GitAt == <<"g", "i", "t", "@">>
DotGit == <<".", "g", "i", "t">>
HttpsScheme == <<"h", "t", "t", "p", "s", ":", "/", "/">>

SshUrl == GitAt \o <<"h", ":", "o", "/", "r">> \o DotGit
HttpsUrl == HttpsScheme \o <<"h", "/", "o", "/", "r">> \o DotGit
HttpsBareUrl == HttpsScheme \o <<"h", "/", "o", "/", "r">>
HttpsDottedUrl == HttpsScheme \o <<"h", "/", "o", "/", "r", ".", "x">> \o DotGit
FtpUrl == <<"f", "t", "p", ":", "/", "/", "x", "/", "y">>
EmptyUrl == << >>

\* the urls the origin remote of the checkout may carry
OriginUrls == {SshUrl, HttpsUrl, HttpsBareUrl, HttpsDottedUrl, FtpUrl, EmptyUrl}

\* the value of a missing 'origin' remote
NoOrigin == <<"<no origin>">>

\* the /i flag of a regular expression: compare characters in lower case
Lower(c) ==
  CASE c = "H" -> "h" [] c = "T" -> "t" [] c = "P" -> "p" [] c = "S" -> "s"
    [] c = "G" -> "g" [] c = "I" -> "i" [] OTHER -> c

LowerSeq(s) == [i \in 1..Len(s) |-> Lower(s[i])]

StartsWith(s, p) == Len(s) >= Len(p) /\ SubSeq(s, 1, Len(p)) = p

EndsWith(s, p) == Len(s) >= Len(p) /\ SubSeq(s, Len(s) - Len(p) + 1, Len(s)) = p

Max(S) == CHOOSE x \in S : \A y \in S : y <= x

Min(S) == CHOOSE x \in S : \A y \in S : x <= y

\* the value standing for 'throw new Error(`Invalid git url: ${url}`)'
InvalidGitUrl == <<"Invalid git url">>

InvalidRepoInfo == [error |-> InvalidGitUrl]

\* /^git@(.+):(.+)\.git$/ : the positions of a ':' that leave a non-empty
\* first group before it and a non-empty second group before the '.git'
GitColons(url) ==
  {i \in 1..Len(url) : /\ url[i] = ":"
                       /\ i >= Len(GitAt) + 2
                       /\ i + 1 <= Len(url) - Len(DotGit)}

GitMatches(url) ==
  /\ StartsWith(url, GitAt)
  /\ EndsWith(url, DotGit)
  /\ GitColons(url) # {}

\* the groups of the match; (.+) is greedy, so the first group runs to the
\* last ':' that lets the rest match.  The pattern has two groups: group 3
\* does not exist and reads as undefined.
Undefined == <<"<undefined>">>

GitMatch(url) ==
  LET i == Max(GitColons(url))
  IN  <<url,
        SubSeq(url, Len(GitAt) + 1, i - 1),
        SubSeq(url, i + 1, Len(url) - Len(DotGit)),
        Undefined>>

\* /^https:\/\/(.+)(\.git)?$/i
HttpsTest(url) ==
  /\ StartsWith(LowerSeq(url), HttpsScheme)
  /\ Len(url) >= Len(HttpsScheme) + 1

getGitWebUrl(url) ==
  IF HttpsTest(url) THEN url
  ELSE IF ~GitMatches(url) THEN InvalidGitUrl
  ELSE HttpsScheme \o GitMatch(url)[2] \o <<"/">> \o GitMatch(url)[3] \o DotGit

\* positions of '/' in url after the scheme
Slashes(url) == {i \in (Len(HttpsScheme) + 1)..Len(url) : url[i] = "/"}

NoDot(s) == \A i \in 1..Len(s) : s[i] # "."

\* /^https:\/\/([^\/]+)\/([^\/]+)\/([^\.]+)(\.git)?$/i
\* host and owner cannot hold a '/', so they end at the first and the
\* second '/' after the scheme; the repo group holds no '.'.
HttpsRest(url) ==
  LET s1 == Min(Slashes(url))
      s2 == Min(Slashes(url) \ {s1})
  IN  SubSeq(url, s2 + 1, Len(url))

HttpsRepo(url) ==
  LET rest == HttpsRest(url)
  IN  IF NoDot(rest) THEN rest
      ELSE SubSeq(rest, 1, Len(rest) - Len(DotGit))

HttpsMatches(url) ==
  /\ StartsWith(LowerSeq(url), HttpsScheme)
  /\ Cardinality(Slashes(url)) >= 2
  /\ LET s1 == Min(Slashes(url))
         s2 == Min(Slashes(url) \ {s1})
         rest == HttpsRest(url)
     IN  /\ s1 > Len(HttpsScheme) + 1
         /\ s2 > s1 + 1
         /\ \/ Len(rest) >= 1 /\ NoDot(rest)
            \/ /\ EndsWith(LowerSeq(rest), DotGit)
               /\ Len(rest) >= Len(DotGit) + 1
               /\ NoDot(SubSeq(rest, 1, Len(rest) - Len(DotGit)))

HttpsOwner(url) ==
  LET s1 == Min(Slashes(url))
      s2 == Min(Slashes(url) \ {s1})
  IN  SubSeq(url, s1 + 1, s2 - 1)

getRepoInfo(url) ==
  IF ~GitMatches(url)
  THEN IF ~HttpsMatches(url) THEN InvalidRepoInfo
       ELSE [owner |-> HttpsOwner(url), repo |-> HttpsRepo(url)]
  ELSE [owner |-> GitMatch(url)[3], repo |-> GitMatch(url)[4]]


(***************************************************************************)
(* The world of a run: the remote repository, the checkout's files.        *)
(***************************************************************************)
Branches == {"main", "develop"}

DEFAULT_BASE_BRANCH == "main"

\* a ref of the remote as git.listServerRefs returns it with
\* prefix 'refs/heads/': the prefix and the branch name
HeadsPrefix == "refs/heads/"

ServerRef(b) == [ref |-> <<HeadsPrefix, b>>]

\* r.ref.replace('refs/heads/', '')
StripHeads(ref) == IF ref[1] = HeadsPrefix THEN ref[2] ELSE ref

\* the commit a branch of the remote points at
Tip(b) == <<"tip", b>>

NoCommit == <<"none">>

\* remote repositories: the branches they have and their default branch
Remotes ==
  {r \in [refs : SUBSET Branches, default : Branches] : r.default \in r.refs}

\* files of the repository as <<directory, name>>; A and B lie under "src",
\* C lies outside it
FileA == <<"src", "a">>
FileB == <<"src", "b">>
FileC == <<"lib", "c">>

\* the files in the order git.statusMatrix lists them
FileOrder == <<FileC, FileA, FileB>>

Files == {FileOrder[i] : i \in 1..Len(FileOrder)}

\* rows [HEAD, WORKDIR, STAGE] of git.statusMatrix
Unmodified == <<1, 1, 1>>

StatusRows ==
  { <<0, 2, 0>>, <<0, 2, 2>>, <<0, 2, 3>>, Unmodified, <<1, 2, 1>>,
    <<1, 2, 2>>, <<1, 2, 3>>, <<1, 0, 0>>, <<1, 0, 1>>, <<1, 2, 0>>,
    <<1, 1, 0>>, <<1, 1, 3>>, <<0, 0, 3>> }

(***************************************************************************)
(* Errors and log entries.                                                 *)
(*   at    : the stage in which the error was thrown                       *)
(*   names : the stages the text written by content.ts names               *)
(*   cause : the underlying cause the value carries                        *)
(***************************************************************************)
Err(at, names, cause) == [at |-> at, names |-> names, cause |-> cause]

NoError == Err("none", {}, "none")

\* an error thrown by a library call (isomorphic-git, axios, fs): content.ts
\* adds no text of its own to it
LibError(at, cause) == Err(at, {}, cause)

\* one console.log / console.error call, by its line in content.ts
LogEntry(line, names, cause) == [line |-> line, names |-> names, cause |-> cause]

Info(line) == LogEntry(line, {}, "none")

(***************************************************************************)
(* validateInput (lines 64-120).  listing is the outcome of                *)
(* git.listServerRefs: it throws or returns refs.  exists and writable     *)
(* are the answers of fs.existsSync and fs.accessSync for tempPath.        *)
(* The result tells whether it returned true, the error thrown otherwise,  *)
(* and whether the remote call was made.                                   *)
(***************************************************************************)
ListFails == [throws |-> TRUE, refs |-> {}]

Listed(refs) == [throws |-> FALSE, refs |-> refs]

Thrown(msg, listed) ==
  [ok |-> FALSE, error |-> Err("validate", {"validate"}, msg), listed |-> listed]

validateInput_skipBaseRef(props, listing, exists, writable) ==
  IF props.base = "" THEN Thrown("Missing base branch name", FALSE)
  ELSE IF props.gitUrl = << >> THEN Thrown("Missing repo url", FALSE)
  ELSE IF props.gitUsername = "" THEN Thrown("Missing username", FALSE)
  ELSE IF props.gitPassword = "" THEN Thrown("Missing password", FALSE)
  ELSE IF props.script = "" THEN Thrown("Missing script", FALSE)
  ELSE IF listing.throws
    THEN [ok |-> FALSE, error |-> LibError("validate", "lib"), listed |-> TRUE]
  ELSE IF props.tempPath = "" THEN Thrown("Missing tempPath", TRUE)
  ELSE IF ~exists THEN Thrown("Temp path does not exist", TRUE)
  ELSE IF ~writable THEN Thrown("Temp path is not writable", TRUE)
  ELSE [ok |-> TRUE, error |-> NoError, listed |-> TRUE]

validateInput_scriptFirst(props, listing, exists, writable) ==
  IF props.script = "" THEN Thrown("Missing script", FALSE)
  ELSE IF props.base = "" THEN Thrown("Missing base branch name", FALSE)
  ELSE IF props.gitUrl = << >> THEN Thrown("Missing repo url", FALSE)
  ELSE IF props.gitUsername = "" THEN Thrown("Missing username", FALSE)
  ELSE IF props.gitPassword = "" THEN Thrown("Missing password", FALSE)
  ELSE IF listing.throws
    THEN [ok |-> FALSE, error |-> LibError("validate", "lib"), listed |-> TRUE]
  ELSE IF ~\E r \in listing.refs : StripHeads(r.ref) = props.base
    THEN Thrown("Base branch does not exist", TRUE)
  ELSE IF props.tempPath = "" THEN Thrown("Missing tempPath", TRUE)
  ELSE IF ~exists THEN Thrown("Temp path does not exist", TRUE)
  ELSE IF ~writable THEN Thrown("Temp path is not writable", TRUE)
  ELSE [ok |-> TRUE, error |-> NoError, listed |-> TRUE]

validateInput(props, listing, exists, writable) ==
  IF props.base = "" THEN Thrown("Missing base branch name", FALSE)
  ELSE IF props.gitUrl = << >> THEN Thrown("Missing repo url", FALSE)
  ELSE IF props.gitUsername = "" THEN Thrown("Missing username", FALSE)
  ELSE IF props.gitPassword = "" THEN Thrown("Missing password", FALSE)
  ELSE IF props.script = "" THEN Thrown("Missing script", FALSE)
  ELSE IF listing.throws
    THEN [ok |-> FALSE, error |-> LibError("validate", "lib"), listed |-> TRUE]
  ELSE IF ~\E r \in listing.refs : StripHeads(r.ref) = props.base
    THEN Thrown("Base branch does not exist", TRUE)
  ELSE IF props.tempPath = "" THEN Thrown("Missing tempPath", TRUE)
  ELSE IF ~exists THEN Thrown("Temp path does not exist", TRUE)
  ELSE IF ~writable THEN Thrown("Temp path is not writable", TRUE)
  ELSE [ok |-> TRUE, error |-> NoError, listed |-> TRUE]


(***************************************************************************)
(* State of one run.                                                       *)
(***************************************************************************)
VARIABLES
  remote,          \* the remote repository: its branches and default branch
  remoteBranches,  \* publish branches pushed to the remote
  prs,             \* pull requests of the remote
  props,           \* the ContentCommitProps built by start
  validated,       \* what validateInput saw of the remote and the file system
  pc,              \* the stage the run is about to execute
  cloneHead,       \* the commit checked out in the workspace
  publishBranch,   \* the publish branch of the workspace
  matrix,          \* the status row of every file of the workspace
  modifiedFiles,   \* the ChangeSet
  staged,          \* the paths handed to git.add that were staged
  committed,       \* the paths of the local commit
  pullNumber,      \* the number read from the create response
  log,             \* what was written with console.log / console.error
  calls,           \* how many times each external operation was attempted
  trace,           \* the stages started, in order
  completed,       \* the stages that completed successfully
  outcome,         \* "running", "success", "noop" or "failed"
  failedAt,        \* the stage whose failure ended the run
  ccResult,        \* the promise of contentCommit
  requests,        \* the HTTP requests sent with axios, in order
  resolver,        \* a url and what the url functions made of it
  naming,          \* an instant, a time zone and the branch name made of them
  runs,            \* the state of each of two concurrent runs
  clock,           \* the wall clock the concurrent runs read
  accesses         \* which run touched which scratch directory

vars ==
  <<remote, remoteBranches, prs, props, validated, pc, cloneHead,
    publishBranch, matrix, modifiedFiles, staged, committed, pullNumber, log,
    calls, trace, completed, outcome, failedAt, ccResult, requests,
    resolver, naming, runs, clock, accesses>>

\* the variables of one run of the script
runVars ==
  <<props, validated, pc, cloneHead, publishBranch, matrix, modifiedFiles,
    staged, committed, pullNumber, log, calls, trace, completed, outcome,
    failedAt, ccResult, requests>>

\* the variables the run of the script never touches
auxVars == <<resolver, naming, runs, clock, accesses>>

Ops ==
  {"listServerRefs", "clone", "branch", "exec", "statusMatrix", "add",
   "commit", "push", "createPR", "merge"}

\* the stages of a run in the order of the code
StageOrder ==
  <<"validate", "clone", "branch", "build", "diff", "commit", "push",
    "createPR", "merge">>

Stages == {StageOrder[i] : i \in 1..Len(StageOrder)}

NoProps ==
  [base |-> "", script |-> "", message |-> "", path |-> "", gitUrl |-> << >>,
   gitUsername |-> "", gitPassword |-> "", tempPath |-> ""]

NoValidation ==
  [done |-> FALSE, listing |-> ListFails, exists |-> FALSE, writable |-> FALSE]

NoBranch == [name |-> <<"none", << >>, 0>>, start |-> NoCommit]

\* the resolver, the naming and the concurrent runs before they are used
PendingUrl == <<"pending">>

PendingInfo == [pending |-> TRUE]

NoResolver ==
  [shape |-> "none", host |-> << >>, owner |-> << >>, repo |-> << >>,
   url |-> << >>, web |-> PendingUrl, info |-> PendingInfo]

NoNaming == [now |-> 0, tz |-> 0, name |-> <<"none", << >>, 0>>]

NoRuns == << >>

\* values of the command line and the environment
ArgvBases == {"", "main", "develop"}
EnvBases == {"", "develop"}
Scripts == {"", "echo"}
Usernames == {"", "user"}
Passwords == {"", "token"}
ContentPaths == {"src"}

\* the state before a run does anything, with props p and the run at stage at
InitWith(p, at) ==
  /\ remote \in Remotes
  /\ remoteBranches = {}
  /\ prs = {}
  /\ props = p
  /\ validated = NoValidation
  /\ pc = at
  /\ cloneHead = NoCommit
  /\ publishBranch = NoBranch
  /\ matrix = [f \in Files |-> Unmodified]
  /\ modifiedFiles = << >>
  /\ staged = {}
  /\ committed = {}
  /\ pullNumber = 0
  /\ log = << >>
  /\ calls = [o \in Ops |-> 0]
  /\ trace = << >>
  /\ completed = {}
  /\ outcome = "running"
  /\ failedAt = "none"
  /\ ccResult = "notCalled"
  /\ requests = << >>

Init ==
  /\ InitWith(NoProps, "start")
  /\ resolver = NoResolver
  /\ naming = NoNaming
  /\ runs = NoRuns
  /\ clock = 0
  /\ accesses = {}

Called(op) == calls' = [calls EXCEPT ![op] = @ + 1]

Called2(op1, op2) == calls' = [calls EXCEPT ![op1] = @ + 1, ![op2] = @ + 1]

Started(stage) == trace' = Append(trace, stage)

Completed(stage) == completed' = completed \cup {stage}

(***************************************************************************)
(* start (lines 302-347) up to the call of validateInput: read the command *)
(* line and the environment, find the origin remote, build props.  Any     *)
(* throw is caught at line 344 and written with console.error.             *)
(***************************************************************************)
\* const base$ = base || process.env.CONTENT_PUBLISH_BASE_BRANCH || DEFAULT_BASE_BRANCH
BaseOf(argvBase, envBase) ==
  IF argvBase # "" THEN argvBase
  ELSE IF envBase # "" THEN envBase
  ELSE DEFAULT_BASE_BRANCH

StartFails(cause) ==
  /\ log' = Append(log, LogEntry(345, {}, cause))
  /\ pc' = "done"
  /\ outcome' = "failed"
  /\ failedAt' = "start"
  /\ UNCHANGED props

Start ==
  /\ pc = "start"
  /\ \E argvBase \in ArgvBases, envBase \in EnvBases, script \in Scripts,
        username \in Usernames, password \in Passwords,
        path \in ContentPaths, origin \in OriginUrls \cup {NoOrigin},
        libOk \in BOOLEAN :
       IF ~libOk THEN StartFails("lib")
       ELSE IF origin = NoOrigin THEN StartFails("No remote origin found")
       ELSE IF getGitWebUrl(origin) = InvalidGitUrl THEN StartFails("Invalid git url")
       ELSE /\ props' = [base |-> BaseOf(argvBase, envBase),
                         script |-> script,
                         message |-> "Product publish",
                         path |-> path,
                         gitUrl |-> getGitWebUrl(origin),
                         gitUsername |-> username,
                         gitPassword |-> password,
                         tempPath |-> "/tmp"]
            /\ pc' = "validate"
            /\ UNCHANGED <<log, outcome, failedAt>>
  /\ UNCHANGED auxVars
  /\ UNCHANGED <<requests, remote, remoteBranches, prs, validated, cloneHead,
                 publishBranch, matrix, modifiedFiles, staged, committed,
                 pullNumber, calls, trace, completed, ccResult>>

(***************************************************************************)
(* start, line 341-346: await validateInput(props); contentCommit is       *)
(* called when it returned true, a throw is written with console.error.    *)
(***************************************************************************)
RemoteRefs == {ServerRef(b) : b \in remote.refs}

Validate ==
  /\ pc = "validate"
  /\ \E listing \in {ListFails, Listed(RemoteRefs)}, exists \in BOOLEAN,
        writable \in BOOLEAN :
       LET r == validateInput(props, listing, exists, writable)
       IN  /\ validated' = [done |-> TRUE, listing |-> listing,
                            exists |-> exists, writable |-> writable]
           /\ calls' = [calls EXCEPT !["listServerRefs"] =
                          IF r.listed THEN @ + 1 ELSE @]
           /\ Started("validate")
           /\ IF r.ok
              THEN /\ pc' = "clone"
                   /\ ccResult' = "pending"
                   /\ Completed("validate")
                   /\ UNCHANGED <<log, outcome, failedAt>>
              ELSE /\ log' = Append(log, LogEntry(345, r.error.names, r.error.cause))
                   /\ pc' = "done"
                   /\ outcome' = "failed"
                   /\ failedAt' = "validate"
                   /\ UNCHANGED <<ccResult, completed>>
  /\ UNCHANGED auxVars
  /\ UNCHANGED <<requests, remote, remoteBranches, prs, props, cloneHead, publishBranch,
                 matrix, modifiedFiles, staged, committed, pullNumber>>


(***************************************************************************)
(* contentCommit (lines 123-300).                                          *)
(***************************************************************************)
\* what the promise of contentCommit becomes once the catch of line 297 has
\* logged the error: the catch does not rethrow
CatchResult_rethrow == "rejected"

CatchResult == "resolved"

\* the catch of lines 297-299: one console.log with a fixed text that names
\* the creation of the pull request, followed by the error; the run ends
TopLevelCatch(entries, err) ==
  /\ log' = log \o entries \o
              <<LogEntry(298, {"createPR"} \cup err.names, err.cause)>>
  /\ pc' = "done"
  /\ outcome' = "failed"
  /\ failedAt' = err.at
  /\ ccResult' = CatchResult

\* git.clone is called without a ref (lines 144-155): the branch that is
\* cloned is the one the remote's HEAD names, whatever base is
clonedBranch(base, default) == default

\* lines 135-156: workingPath, getRepoInfo, git.clone
Clone ==
  /\ pc = "clone"
  /\ IF getRepoInfo(props.gitUrl) = InvalidRepoInfo
     THEN /\ TopLevelCatch(<< >>, Err("repoInfo", {}, "Invalid git url"))
          /\ UNCHANGED <<cloneHead, calls, trace, completed>>
     ELSE /\ Called("clone")
          /\ Started("clone")
          /\ \E ok \in BOOLEAN :
               IF ok
               THEN /\ cloneHead' = Tip(clonedBranch(props.base, remote.default))
                    /\ log' = Append(log, Info(156))
                    /\ pc' = "branch"
                    /\ Completed("clone")
                    /\ UNCHANGED <<outcome, failedAt, ccResult>>
               ELSE /\ TopLevelCatch(<< >>, LibError("clone", "lib"))
                    /\ UNCHANGED <<cloneHead, completed>>
  /\ UNCHANGED auxVars
  /\ UNCHANGED <<requests, remote, remoteBranches, prs, props, validated, publishBranch,
                 matrix, modifiedFiles, staged, committed, pullNumber>>

(***************************************************************************)
(* The name of the publish branch (lines 158-163).  now is the value of    *)
(* new Date() in milliseconds since the epoch; tz is the offset of the     *)
(* process's local time from UTC in minutes (UTC+1 is 60).  getFullYear,   *)
(* getMonth and getDate are the getters of the LOCAL time of a Date.       *)
(***************************************************************************)
MsPerMinute == 60 * 1000

MsPerDay == 24 * 60 * MsPerMinute

\* the day of the local time, counted from 1970-01-01
LocalDay(now, tz) == (now + tz * MsPerMinute) \div MsPerDay

\* year, month (1..12) and day of month of a day counted from 1970-01-01,
\* in the proleptic Gregorian calendar
CivilFromDays(days) ==
  LET z == days + 719468
      era == z \div 146097
      doe == z - era * 146097
      yoe == (doe - doe \div 1460 + doe \div 36524 - doe \div 146096) \div 365
      doy == doe - (365 * yoe + yoe \div 4 - yoe \div 100)
      mp == (5 * doy + 2) \div 153
      d == doy - (153 * mp + 2) \div 5 + 1
      m == IF mp < 10 THEN mp + 3 ELSE mp - 9
      y == yoe + era * 400 + (IF m <= 2 THEN 1 ELSE 0)
  IN  [year |-> y, month |-> m, date |-> d]

getFullYear(now, tz) == CivilFromDays(LocalDay(now, tz)).year

\* months are counted from 0
getMonth(now, tz) == CivilFromDays(LocalDay(now, tz)).month - 1

getDate(now, tz) == CivilFromDays(LocalDay(now, tz)).date

\* Number.prototype.toString of a natural number: its decimal digits
RECURSIVE Digits(_)
Digits(n) == IF n < 10 THEN <<n>> ELSE Digits(n \div 10) \o <<n % 10>>

\* .toString().padStart(2, '0')
PadStart2(n) == IF Len(Digits(n)) < 2 THEN <<0>> \o Digits(n) ELSE Digits(n)

\* lines 159-161
dateName(now, tz) ==
  Digits(getFullYear(now, tz)) \o PadStart2(getMonth(now, tz) + 1)
    \o PadStart2(getDate(now, tz))

\* `content-publish-${dateName}-${dateStamp}` (lines 162-163)
BranchName(now, tz) == <<"content-publish", dateName(now, tz), now>>

\* offsets of the local time zone of the process, in minutes
TzOffsets == {0 - 60, 0, 60}

\* lines 158-170: name the publish branch, git.branch with checkout
Branch ==
  /\ pc = "branch"
  /\ Called("branch")
  /\ Started("branch")
  /\ \E now \in 1..MaxNow, tz \in TzOffsets, ok \in BOOLEAN :
       IF ok
       THEN /\ publishBranch' = [name |-> BranchName(now, tz), start |-> cloneHead]
            /\ log' = Append(log, Info(170))
            /\ pc' = "build"
            /\ Completed("branch")
            /\ UNCHANGED <<outcome, failedAt, ccResult>>
       ELSE /\ TopLevelCatch(<< >>, LibError("branch", "lib"))
            /\ UNCHANGED <<publishBranch, completed>>
  /\ UNCHANGED auxVars
  /\ UNCHANGED <<requests, remote, remoteBranches, prs, props, validated, cloneHead,
                 matrix, modifiedFiles, staged, committed, pullNumber>>

\* lines 172-183: execSync of `npm i && npm run build && ${script}`; the
\* subprocess leaves every file of the workspace in some status
Build ==
  /\ pc = "build"
  /\ Called("exec")
  /\ Started("build")
  /\ \E m \in [Files -> StatusRows], ok \in BOOLEAN :
       /\ matrix' = m
       /\ IF ok
          THEN /\ log' = log \o <<Info(174), Info(180)>>
               /\ pc' = "diff"
               /\ Completed("build")
               /\ UNCHANGED <<outcome, failedAt, ccResult>>
          ELSE /\ TopLevelCatch(<<Info(174)>>, Err("build", {"build"}, "stderr"))
               /\ UNCHANGED completed
  /\ UNCHANGED auxVars
  /\ UNCHANGED <<requests, remote, remoteBranches, prs, props, validated, cloneHead,
                 publishBranch, modifiedFiles, staged, committed, pullNumber>>


\* a file lies under a path handed to git.statusMatrix as filepaths
UnderPath(file, path) == file[1] = path

\* git.statusMatrix({dir, filepaths}) (lines 196-200): one row
\* <<FILE, HEAD, WORKDIR, STAGE>> for every file under one of filepaths
statusMatrix_allFiles(m, filepaths) ==
  [i \in 1..Len(FileOrder) |-> <<FileOrder[i]>> \o m[FileOrder[i]]]

statusMatrix(m, filepaths) ==
  LET Wanted(row) == \E p \in filepaths : UnderPath(row[1], p)
  IN  SelectSeq([i \in 1..Len(FileOrder) |-> <<FileOrder[i]>> \o m[FileOrder[i]]],
                Wanted)

\* positions of a row, enum StatusEnum (lines 187-192), counted from 1
FILE == 1
HEAD == 2
WORKDIR == 3
STAGE == 4

\* the filter of lines 202-208
isModified_ignoreStage(result) ==
  ~(result[HEAD] = 1 /\ result[WORKDIR] = 1)

isModified(result) ==
  ~(result[HEAD] = 1 /\ result[WORKDIR] = 1 /\ result[STAGE] = 1)

\* lines 195-209: filter the rows, map them to their path
ModifiedFilesOf(m, contentPath) ==
  LET kept == SelectSeq(statusMatrix(m, {contentPath}), isModified)
  IN  [i \in 1..Len(kept) |-> kept[i][FILE]]

\* if (!modifiedFiles.length) (line 210)
noChanges_never(files) == FALSE

noChanges(files) == Len(files) = 0

Range(seq) == {seq[i] : i \in 1..Len(seq)}

\* lines 195-214: the ChangeSet; an empty one ends the run
Diff ==
  /\ pc = "diff"
  /\ Called("statusMatrix")
  /\ Started("diff")
  /\ \E ok \in BOOLEAN :
       IF ok
       THEN LET files == ModifiedFilesOf(matrix, props.path)
            IN  /\ modifiedFiles' = files
                /\ Completed("diff")
                /\ UNCHANGED failedAt
                /\ IF noChanges(files)
                   THEN /\ log' = Append(log, Info(211))
                        /\ pc' = "done"
                        /\ outcome' = "noop"
                        /\ ccResult' = "resolved"
                   ELSE /\ log' = Append(log, Info(214))
                        /\ pc' = "commit"
                        /\ UNCHANGED <<outcome, ccResult>>
       ELSE /\ TopLevelCatch(<< >>, LibError("diff", "lib"))
            /\ UNCHANGED <<modifiedFiles, completed>>
  /\ UNCHANGED auxVars
  /\ UNCHANGED <<requests, remote, remoteBranches, prs, props, validated, cloneHead,
                 publishBranch, matrix, staged, committed, pullNumber>>

\* the catch of lines 233-236: log the error with the ChangeSet, throw it
\* again as new Error(error), which the catch of line 297 receives
CommitThrows_swallow ==
  /\ log' = Append(log, LogEntry(234, {"commit"}, "lib"))
  /\ pc' = "push"
  /\ UNCHANGED <<outcome, failedAt, ccResult>>

CommitThrows ==
  TopLevelCatch(<<LogEntry(234, {"commit"}, "lib")>>, LibError("commit", "lib"))

\* lines 217-236: git.add of the ChangeSet, git.commit; a throw of either
\* is logged at line 234 and thrown again as new Error(error)
Commit ==
  /\ pc = "commit"
  /\ Started("commit")
  /\ \E addOk \in BOOLEAN, commitOk \in BOOLEAN :
       IF addOk
       THEN /\ staged' = Range(modifiedFiles)
            /\ Called2("add", "commit")
            /\ IF commitOk
               THEN /\ committed' = staged'
                    /\ log' = Append(log, Info(232))
                    /\ pc' = "push"
                    /\ Completed("commit")
                    /\ UNCHANGED <<outcome, failedAt, ccResult>>
               ELSE /\ CommitThrows
                    /\ UNCHANGED <<committed, completed>>
       ELSE /\ Called("add")
            /\ \E part \in SUBSET Range(modifiedFiles) : staged' = part
            /\ CommitThrows
            /\ UNCHANGED <<committed, completed>>
  /\ UNCHANGED auxVars
  /\ UNCHANGED <<requests, remote, remoteBranches, prs, props, validated, cloneHead,
                 publishBranch, matrix, modifiedFiles, pullNumber>>

\* the catch of lines 253-256: log the error, throw it again as
\* new Error(error), which the catch of line 297 receives
PushThrows_swallow ==
  /\ log' = Append(log, LogEntry(254, {"push"}, "lib"))
  /\ pc' = "createPR"
  /\ UNCHANGED <<outcome, failedAt, ccResult>>

PushThrows ==
  TopLevelCatch(<<LogEntry(254, {"push"}, "lib")>>, LibError("push", "lib"))

\* lines 239-256: git.push of the publish branch
Push ==
  /\ pc = "push"
  /\ Called("push")
  /\ Started("push")
  /\ \E ok \in BOOLEAN :
       IF ok
       THEN /\ remoteBranches' = remoteBranches \cup
                 {[name |-> publishBranch.name, start |-> publishBranch.start,
                   paths |-> committed]}
            /\ log' = Append(log, Info(252))
            /\ pc' = "createPR"
            /\ Completed("push")
            /\ UNCHANGED <<outcome, failedAt, ccResult>>
       ELSE /\ PushThrows
            /\ UNCHANGED <<remoteBranches, completed>>
  /\ UNCHANGED auxVars
  /\ UNCHANGED <<requests, remote, prs, props, validated, cloneHead, publishBranch,
                 matrix, modifiedFiles, staged, committed, pullNumber>>

\* the number of a response without one: data.number is undefined
NoNumber == 0

\* if (!pullNumber) (line 280)
missingPullNumber_never(number) == FALSE

missingPullNumber(number) == number = NoNumber

\* the headers object written at lines 273-277 and 291-295
AuthHeaders(password) ==
  {[name |-> "Authorization", value |-> <<"Bearer", password>>],
   [name |-> "Content-Type", value |-> <<"application/json">>],
   [name |-> "Accept", value |-> <<"application/vnd.github+json">>]}

ApiRoot == "https://api.github.com"

\* axios.post(url, data) of lines 265-278: two arguments, the second one is
\* the request body; no third (config) argument, so the call sets no
\* request headers of its own
CreateRequest(p, branchName) ==
  LET info == getRepoInfo(p.gitUrl)
  IN  [method |-> "POST",
       url |-> <<ApiRoot, "repos", info.owner, info.repo, "pulls">>,
       data |-> [owner |-> info.owner,
                 repo |-> info.repo,
                 title |-> "chore(content): publish updates",
                 body |-> "",
                 head |-> branchName,
                 base |-> p.base,
                 baseURL |-> "https://api.github.com/",
                 headers |-> AuthHeaders(p.gitPassword)],
       headers |-> {}]

\* axios.put(url, data) of lines 284-296
MergeRequest(p, number) ==
  LET info == getRepoInfo(p.gitUrl)
  IN  [method |-> "PUT",
       url |-> <<ApiRoot, "repos", info.owner, info.repo, "pulls", number,
                 "merge">>,
       data |-> [owner |-> info.owner,
                 repo |-> info.repo,
                 baseURL |-> "https://api.github.com/",
                 pull_number |-> number,
                 commit_title |-> <<"Merge pull request", number>>,
                 commit_message |-> "Publish content",
                 headers |-> AuthHeaders(p.gitPassword)],
       headers |-> {}]

\* lines 261-282: POST /repos/{owner}/{repo}/pulls, read data.number
CreatePR ==
  /\ pc = "createPR"
  /\ Called("createPR")
  /\ requests' = Append(requests, CreateRequest(props, publishBranch.name))
  /\ Started("createPR")
  /\ \E ok \in BOOLEAN, number \in {NoNumber} \cup (1..MaxPullNumber) :
       IF ~ok
       THEN /\ TopLevelCatch(<<Info(261)>>, LibError("createPR", "http"))
            /\ UNCHANGED <<prs, pullNumber, completed>>
       ELSE /\ pullNumber' = number
            /\ prs' = IF number = NoNumber THEN prs
                      ELSE prs \cup {[number |-> number,
                                      head |-> publishBranch.name,
                                      base |-> props.base,
                                      merged |-> FALSE]}
            /\ IF missingPullNumber(number)
               THEN /\ TopLevelCatch(<<Info(261)>>,
                         Err("createPR", {"createPR"}, "missing PR number"))
                    /\ UNCHANGED completed
               ELSE /\ log' = Append(log, Info(261))
                    /\ pc' = "merge"
                    /\ Completed("createPR")
                    /\ UNCHANGED <<outcome, failedAt, ccResult>>
  /\ UNCHANGED auxVars
  /\ UNCHANGED <<remote, remoteBranches, props, validated, cloneHead,
                 publishBranch, matrix, modifiedFiles, staged, committed>>

\* a throw of the merge call goes to the catch of line 297: no retry
MergeThrows_retry ==
  IF calls["merge"] = 0
  THEN /\ pc' = "merge"
       /\ UNCHANGED <<log, outcome, failedAt, ccResult>>
  ELSE TopLevelCatch(<< >>, LibError("merge", "http"))

MergeThrows == TopLevelCatch(<< >>, LibError("merge", "http"))

\* lines 284-296: PUT /repos/{owner}/{repo}/pulls/{pullNumber}/merge
Merge ==
  /\ pc = "merge"
  /\ Called("merge")
  /\ requests' = Append(requests, MergeRequest(props, pullNumber))
  /\ Started("merge")
  /\ \E ok \in BOOLEAN :
       IF ok
       THEN /\ prs' = {IF pr.number = pullNumber
                       THEN [pr EXCEPT !.merged = TRUE] ELSE pr : pr \in prs}
            /\ pc' = "done"
            /\ outcome' = "success"
            /\ ccResult' = "resolved"
            /\ Completed("merge")
            /\ UNCHANGED <<log, failedAt>>
       ELSE /\ MergeThrows
            /\ UNCHANGED <<prs, completed>>
  /\ UNCHANGED auxVars
  /\ UNCHANGED <<remote, remoteBranches, props, validated, cloneHead,
                 publishBranch, matrix, modifiedFiles, staged, committed,
                 pullNumber>>

\* what console.log('Failed to create content publish PR: ', error) of line
\* 298 writes besides its text: console.log prints the error object, and the
\* error of a rejected axios call carries the request it was made with (its
\* url, method, data and headers)
LoggedRequests ==
  IF /\ outcome = "failed"
     /\ failedAt \in {"createPR", "merge"}
     /\ log[Len(log)].line = 298
     /\ log[Len(log)].cause = "http"
  THEN {requests[Len(requests)]}
  ELSE {}

\* the tokens a request holds, in its headers or in its body
TokensIn(request) ==
  {h.value[2] : h \in {x \in request.headers \cup request.data.headers :
                          x.name = "Authorization"}}

Next ==
  \/ Start
  \/ Validate
  \/ Clone
  \/ Branch
  \/ Build
  \/ Diff
  \/ Commit
  \/ Push
  \/ CreatePR
  \/ Merge

Spec == Init /\ [][Next]_vars

(***************************************************************************)
(* validateInput on its own: props drawn from every combination of empty   *)
(* and non-empty fields, as a caller other than start may pass them.       *)
(***************************************************************************)
ValidateProps ==
  [base : {"", "main", "develop"}, script : Scripts,
   message : {"Product publish"}, path : ContentPaths,
   gitUrl : {EmptyUrl, HttpsUrl}, gitUsername : Usernames,
   gitPassword : Passwords, tempPath : {"", "/tmp"}]

InitValidate ==
  /\ \E p \in ValidateProps : InitWith(p, "validate")
  /\ resolver = NoResolver
  /\ naming = NoNaming
  /\ runs = NoRuns
  /\ clock = 0
  /\ accesses = {}

NextValidate == Validate

SpecValidate == InitValidate /\ [][NextValidate]_vars

(***************************************************************************)
(* The url functions on their own: getGitWebUrl and getRepoInfo applied to *)
(* urls built from a host H, an owner O and a repository name R.           *)
(***************************************************************************)
PartsOver(chars) == UNION {[1..n -> chars] : n \in 1..MaxPart}

\* a name does not end with '.' and has no two '.' in a row
Name(s) ==
  /\ s[Len(s)] # "."
  /\ \A i \in 1..(Len(s) - 1) : ~(s[i] = "." /\ s[i + 1] = ".")

\* hosts such as h, hh, h.h; owners such as o, oo; repository names
\* such as r, rr, r.r, .r
Hosts == {h \in PartsOver({"h", "."}) : Name(h) /\ h[1] # "."}
Owners == PartsOver({"o"})
Repos == {r \in PartsOver({"r", "."}) : Name(r)}

UpperScheme == <<"H", "T", "T", "P", "S", ":", "/", "/">>

Input(shape, h, o, r, url) ==
  [shape |-> shape, host |-> h, owner |-> o, repo |-> r, url |-> url,
   web |-> PendingUrl, info |-> PendingInfo]

\* git@H:O/R.git
SshInputs ==
  {Input("ssh", h, o, r, GitAt \o h \o <<":">> \o o \o <<"/">> \o r \o DotGit) :
     h \in Hosts, o \in Owners, r \in Repos}

\* https://H/O/R and https://H/O/R.git
HttpsInputs ==
  UNION {{Input("https", h, o, r, scheme \o h \o <<"/">> \o o \o <<"/">> \o r),
          Input("https", h, o, r,
                scheme \o h \o <<"/">> \o o \o <<"/">> \o r \o DotGit)} :
           h \in Hosts, o \in Owners, r \in Repos,
           scheme \in {HttpsScheme, UpperScheme}}

\* urls of neither shape
OtherUrls ==
  {FtpUrl, EmptyUrl,
   HttpsScheme \o <<"h">>,
   HttpsScheme \o <<"h", "/", "o">>,
   <<"h", "t", "t", "p", ":", "/", "/", "h", "/", "o", "/", "r">> \o DotGit,
   GitAt \o <<"h", ":", "o">> \o DotGit,
   GitAt \o <<"h", ":", "o", "/", "r">>,
   <<"h", ":", "o", "/", "r">> \o DotGit}

OtherInputs == {Input("other", << >>, << >>, << >>, u) : u \in OtherUrls}

InitResolver ==
  /\ InitWith(NoProps, "start")
  /\ resolver \in SshInputs \cup HttpsInputs \cup OtherInputs
  /\ naming = NoNaming
  /\ runs = NoRuns
  /\ clock = 0
  /\ accesses = {}

\* a call of getGitWebUrl(url)
ResolveWebUrl ==
  /\ resolver.web = PendingUrl
  /\ resolver' = [resolver EXCEPT !.web = getGitWebUrl(resolver.url)]
  /\ UNCHANGED <<remote, remoteBranches, prs, runVars, naming, runs, clock,
                 accesses>>

\* a call of getRepoInfo(url)
ResolveRepoInfo ==
  /\ resolver.info = PendingInfo
  /\ resolver' = [resolver EXCEPT !.info = getRepoInfo(resolver.url)]
  /\ UNCHANGED <<remote, remoteBranches, prs, runVars, naming, runs, clock,
                 accesses>>

NextResolver ==
  \/ ResolveWebUrl
  \/ ResolveRepoInfo

SpecResolver == InitResolver /\ [][NextResolver]_vars

(***************************************************************************)
(* The naming of the publish branch on its own (lines 158-163): instants   *)
(* at the start, the middle and the end of a day, in several time zones.   *)
(***************************************************************************)
NameInstants ==
  {day * MsPerDay + t :
     day \in 0..MaxDay, t \in {0, 1, MsPerDay \div 2, MsPerDay - 1}}

InitNaming ==
  /\ InitWith(NoProps, "start")
  /\ resolver = NoResolver
  /\ \E now \in NameInstants, tz \in TzOffsets :
       naming = [now |-> now, tz |-> tz, name |-> NoNaming.name]
  /\ runs = NoRuns
  /\ clock = 0
  /\ accesses = {}

NameBranch ==
  /\ naming.name = NoNaming.name
  /\ naming' = [naming EXCEPT !.name = BranchName(naming.now, naming.tz)]
  /\ UNCHANGED <<remote, remoteBranches, prs, runVars, resolver, runs, clock,
                 accesses>>

NextNaming == NameBranch

SpecNaming == InitNaming /\ [][NextNaming]_vars

(***************************************************************************)
(* Two runs of contentCommit against the same remote (two CI triggers).    *)
(* Both passed validateInput with the same props.  The runs share the      *)
(* remote and the wall clock; a step of a run is one awaited call of       *)
(* lines 135-296, and any call may throw, which ends the run (line 297).   *)
(***************************************************************************)
Runners == {"first", "second"}

TwoRunProps ==
  [base |-> "main", script |-> "echo", message |-> "Product publish",
   path |-> "src", gitUrl |-> HttpsUrl, gitUsername |-> "user",
   gitPassword |-> "token", tempPath |-> "/tmp"]

\* process.env.CONTENT_PUBLISH_TEMP_PATH_PREFIX || ''
TempPathPrefix == ""

\* the values uuid() may return: a version 4 uuid is drawn at random and
\* does not repeat one drawn before
Uuids == {"uuid-a", "uuid-b"}

uuid(drawn) == Uuids \ drawn

\* resolve(tempPath, `${prefix}${uuid()}`) (line 138)
workingPathOf_noUuid(tempPath, prefix, id) == <<tempPath, prefix>>

workingPathOf(tempPath, prefix, id) == <<tempPath, prefix, id>>

NoDir == << >>

\* the content the update script of a run writes, as the files whose
\* content differs from the repository's first tree: a file under the
\* content path, a file outside it, both or none
RunContents == SUBSET {FileA, FileC}

\* the content a branch of the remote holds: what the merged pull requests
\* into it carried
PublishedTo(b) ==
  UNION {br.paths : br \in {x \in remoteBranches :
                              \E pr \in prs : /\ pr.head = x.name
                                              /\ pr.base = b
                                              /\ pr.merged}}

\* git.statusMatrix after the script wrote content into a clone holding tree:
\* a file is modified in the working tree when the clone lacks its content
builtMatrix(content, tree) ==
  [f \in Files |-> IF f \in content \ tree THEN <<1, 2, 1>> ELSE Unmodified]

NewRun ==
  [pc |-> "clone", id |-> "", dir |-> NoDir, name |-> NoNaming.name,
   namedAt |-> 0, matrix |-> [f \in Files |-> Unmodified],
   files |-> << >>, committed |-> {}, number |-> NoNumber,
   tree |-> {}, baseTree |-> {}, content |-> {}, outcome |-> "running"]

InitTwoRuns ==
  /\ \E b \in Branches : InitWith([TwoRunProps EXCEPT !.base = b], "done")
  /\ props.base \in remote.refs
  /\ resolver = NoResolver
  /\ naming = NoNaming
  /\ runs = [r \in Runners |-> NewRun]
  /\ clock = 0
  /\ accesses = {}

Touch(r, dir, op) == accesses' = accesses \cup {[run |-> r, dir |-> dir, op |-> op]}

DrawnUuids == {runs[r].id : r \in Runners} \ {""}

\* the wall clock advances
Tick ==
  /\ clock < MaxClock
  /\ clock' = clock + 1
  /\ UNCHANGED <<remote, remoteBranches, prs, runVars, resolver, naming, runs,
                 accesses>>

\* lines 135-156: the scratch directory is named, the remote is cloned
\* into it; git.clone has no ref, so the clone holds the remote's default
\* branch.  baseTree records what the base branch held at that moment.
RunClone(r) ==
  /\ runs[r].pc = "clone"
  /\ \E id \in uuid(DrawnUuids) :
       LET dir == workingPathOf(props.tempPath, TempPathPrefix, id)
       IN  /\ runs' = [runs EXCEPT
                         ![r].pc = "branch", ![r].id = id, ![r].dir = dir,
                         ![r].tree =
                           PublishedTo(clonedBranch(props.base, remote.default)),
                         ![r].baseTree = PublishedTo(props.base)]
           /\ Touch(r, dir, "clone")
  /\ UNCHANGED <<remoteBranches, prs, clock>>

\* lines 158-170: the publish branch is named from the clock and created
RunBranch(r) ==
  /\ runs[r].pc = "branch"
  /\ \E tz \in TzOffsets :
       runs' = [runs EXCEPT ![r].pc = "build",
                            ![r].name = BranchName(clock, tz),
                            ![r].namedAt = clock]
  /\ Touch(r, runs[r].dir, "branch")
  /\ UNCHANGED <<remoteBranches, prs, clock>>

\* lines 172-183: the subprocess runs in the scratch directory
RunBuild(r) ==
  /\ runs[r].pc = "build"
  /\ \E content \in RunContents :
       runs' = [runs EXCEPT ![r].pc = "diff", ![r].content = content,
                            ![r].matrix = builtMatrix(content, runs[r].tree)]
  /\ Touch(r, runs[r].dir, "build")
  /\ UNCHANGED <<remoteBranches, prs, clock>>

\* lines 195-214: the ChangeSet; an empty one ends the run
RunDiff(r) ==
  /\ runs[r].pc = "diff"
  /\ LET files == ModifiedFilesOf(runs[r].matrix, props.path)
     IN  runs' = [runs EXCEPT
                    ![r].files = files,
                    ![r].pc = IF noChanges(files) THEN "done" ELSE "commit",
                    ![r].outcome = IF noChanges(files) THEN "noop" ELSE @]
  /\ Touch(r, runs[r].dir, "diff")
  /\ UNCHANGED <<remoteBranches, prs, clock>>

\* lines 217-236: git.add, git.commit in the scratch directory
RunCommit(r) ==
  /\ runs[r].pc = "commit"
  /\ runs' = [runs EXCEPT ![r].pc = "push",
                          ![r].committed = Range(runs[r].files)]
  /\ Touch(r, runs[r].dir, "commit")
  /\ UNCHANGED <<remoteBranches, prs, clock>>

\* lines 239-256: the publish branch is pushed
RunPush(r) ==
  /\ runs[r].pc = "push"
  /\ runs' = [runs EXCEPT ![r].pc = "createPR"]
  /\ remoteBranches' = remoteBranches \cup
       {[name |-> runs[r].name,
         start |-> Tip(clonedBranch(props.base, remote.default)),
         paths |-> runs[r].committed]}
  /\ Touch(r, runs[r].dir, "push")
  /\ UNCHANGED <<prs, clock>>

\* lines 261-282: the remote numbers the pull request
RunCreatePR(r) ==
  /\ runs[r].pc = "createPR"
  /\ LET number == Cardinality(prs) + 1
     IN  /\ runs' = [runs EXCEPT ![r].pc = "merge", ![r].number = number]
         /\ prs' = prs \cup {[number |-> number, head |-> runs[r].name,
                               base |-> props.base, merged |-> FALSE]}
  /\ UNCHANGED <<remoteBranches, clock, accesses>>

\* lines 284-296
RunMerge(r) ==
  /\ runs[r].pc = "merge"
  /\ runs' = [runs EXCEPT ![r].pc = "done", ![r].outcome = "success"]
  /\ prs' = {IF pr.number = runs[r].number
             THEN [pr EXCEPT !.merged = TRUE] ELSE pr : pr \in prs}
  /\ UNCHANGED <<remoteBranches, clock, accesses>>

\* lines 297-299: the call the run is about to make throws
RunFails(r) ==
  /\ runs[r].pc # "done"
  /\ runs' = [runs EXCEPT ![r].pc = "done", ![r].outcome = "failed"]
  /\ UNCHANGED <<remoteBranches, prs, clock, accesses>>

RunStep(r) ==
  /\ \/ RunClone(r)
     \/ RunBranch(r)
     \/ RunBuild(r)
     \/ RunDiff(r)
     \/ RunCommit(r)
     \/ RunPush(r)
     \/ RunCreatePR(r)
     \/ RunMerge(r)
     \/ RunFails(r)
  /\ UNCHANGED <<remote, runVars, resolver, naming>>

NextTwoRuns ==
  \/ Tick
  \/ \E r \in Runners : RunStep(r)

SpecTwoRuns == InitTwoRuns /\ [][NextTwoRuns]_vars

(***************************************************************************)
(* Properties.                                                             *)
(***************************************************************************)
\* the work of contentCommit: every operation but the ref listing
PipelineOps == Ops \ {"listServerRefs"}

NothingDone ==
  /\ \A op \in PipelineOps : calls[op] = 0
  /\ cloneHead = NoCommit
  /\ publishBranch = NoBranch
  /\ committed = {}
  /\ remoteBranches = {}
  /\ prs = {}

\* every check of validateInput holds of what the run gave it
ValidationPassed ==
  /\ validated.done
  /\ props.base # "" /\ props.gitUrl # << >> /\ props.gitUsername # ""
  /\ props.gitPassword # "" /\ props.script # ""
  /\ ~validated.listing.throws
  /\ ServerRef(props.base) \in validated.listing.refs
  /\ props.tempPath # "" /\ validated.exists /\ validated.writable

\* C1: if validateInput fails for any reason, no clone, branch, build,
\* commit, push, pull request or merge happens in the run: contentCommit is
\* entered only after validateInput returned true, i.e. every check passed
C1_NoPipelineBeforeValidation ==
  /\ (ccResult # "notCalled" \/ ~NothingDone) => ValidationPassed
  /\ failedAt = "validate" => (ccResult = "notCalled" /\ NothingDone)

\* C1 witness: validation failed because base is not among the listed refs
C1_Witness ==
  /\ failedAt = "validate"
  /\ ~validated.listing.throws
  /\ props.script # "" /\ props.gitUsername # "" /\ props.gitPassword # ""
  /\ ServerRef(props.base) \notin validated.listing.refs
  /\ pc = "done"

\* C2: an empty ChangeSet ends the run successfully as a no-op: no add,
\* commit, push, pull request or merge call; the publish branch never
\* reaches the remote
C2_EmptyChangeSetIsNoop ==
  ("diff" \in completed /\ modifiedFiles = << >>) =>
    /\ pc = "done" /\ outcome = "noop" /\ ccResult = "resolved"
    /\ \A op \in {"add", "commit", "push", "createPR", "merge"} : calls[op] = 0
    /\ staged = {} /\ committed = {}
    /\ remoteBranches = {} /\ prs = {}

\* C2 witness: a run that built, found nothing changed under the content
\* path (a file outside it did change) and ended
C2_Witness ==
  /\ "diff" \in completed
  /\ modifiedFiles = << >>
  /\ matrix[FileC] # Unmodified
  /\ outcome = "noop"

\* C3: the paths staged and committed by a run are exactly its ChangeSet,
\* which holds only paths under the content path; when A and B under the
\* content path and C outside it are modified, the ChangeSet is {A, B} and
\* C is never staged, committed or pushed
C3_StagedIsChangeSet ==
  /\ staged \subseteq Range(modifiedFiles)
  /\ "commit" \in completed =>
       (staged = Range(modifiedFiles) /\ committed = Range(modifiedFiles))
  /\ \A b \in remoteBranches : b.paths = Range(modifiedFiles)
  /\ \A f \in Files : ~UnderPath(f, props.path) =>
       /\ f \notin Range(modifiedFiles) \cup staged \cup committed
       /\ \A b \in remoteBranches : f \notin b.paths
  /\ ("diff" \in completed /\ \A f \in Files : matrix[f] = <<1, 2, 1>>) =>
       Range(modifiedFiles) = {FileA, FileB}

\* C3 witness: A, B and C modified by the build, the commit pushed
C3_Witness ==
  /\ \A f \in Files : matrix[f] = <<1, 2, 1>>
  /\ committed = {FileA, FileB}
  /\ \E b \in remoteBranches : b.paths = {FileA, FileB}

\* C4: a path under the content path is left out of the ChangeSet if and
\* only if its row is head=1, workdir=1, stage=1; every other row (added,
\* deleted, differing, staged or not) is included
C4_ExcludedIffUnmodified ==
  "diff" \in completed =>
    \A f \in Files : UnderPath(f, props.path) =>
      (f \notin Range(modifiedFiles) <=>
         (matrix[f][1] = 1 /\ matrix[f][2] = 1 /\ matrix[f][3] = 1))

\* C4 witness: a file that differs only in the staging area is included,
\* a deleted one is included, an unmodified one is left out
C4_Witness ==
  /\ "diff" \in completed
  /\ matrix[FileA] = <<1, 1, 3>> /\ FileA \in Range(modifiedFiles)
  /\ matrix[FileB] = Unmodified /\ FileB \notin Range(modifiedFiles)

C4_WitnessDeleted ==
  /\ "diff" \in completed
  /\ matrix[FileB] = <<1, 0, 1>> /\ FileB \in Range(modifiedFiles)

\* C5: when the create response carries no number the merge call is never
\* made and the run fails at the creation of the pull request; a merge is
\* attempted only with the number a successful creation of this run returned
C5_NoMergeWithoutNumber ==
  /\ (calls["createPR"] > 0 /\ pullNumber = NoNumber) =>
       (calls["merge"] = 0 /\ pc = "done" /\ outcome = "failed"
        /\ failedAt = "createPR")
  /\ calls["merge"] > 0 =>
       /\ "createPR" \in completed
       /\ pullNumber \in 1..MaxPullNumber
       /\ \E pr \in prs : pr.number = pullNumber /\ pr.head = publishBranch.name

\* C5 witness: the create call answered without a number
C5_Witness ==
  /\ failedAt = "createPR"
  /\ log[Len(log)].cause = "missing PR number"
  /\ calls["merge"] = 0

\* C6: the publish branch starts at the tip of the validated base branch,
\* for every base, also one that is not the remote's default branch
C6_BranchFromValidatedBase ==
  publishBranch # NoBranch => publishBranch.start = Tip(props.base)

\* C7: the stages run in the order validate, clone, branch, build, diff,
\* commit, push, create PR, merge; a stage starts only after the one before
\* it completed; a failed push leaves the commit local, with no pull
\* request created and no merge attempted
IsPrefix(s, t) == Len(s) <= Len(t) /\ \A i \in 1..Len(s) : s[i] = t[i]

C7_StrictOrder ==
  /\ IsPrefix(trace, StageOrder)
  /\ \A i \in 1..(Len(trace) - 1) : trace[i] \in completed
  /\ completed \subseteq Range(trace)
  /\ failedAt = "push" =>
       /\ committed # {}
       /\ remoteBranches = {} /\ prs = {}
       /\ calls["createPR"] = 0 /\ calls["merge"] = 0
       /\ pc = "done"

\* C7 witness: the push failed after a successful local commit
C7_Witness ==
  /\ failedAt = "push"
  /\ "commit" \in completed
  /\ committed # {}
  /\ trace = SubSeq(StageOrder, 1, 7)

\* C8: every abort (validation, clone, branch, build, commit, push, pull
\* request without number, merge) writes output that names the stage that
\* failed together with the underlying cause
AbortStages ==
  {"validate", "clone", "branch", "build", "commit", "push", "createPR",
   "merge"}

C8_AbortNamesStage ==
  (outcome = "failed" /\ failedAt \in AbortStages) =>
    \E i \in 1..Len(log) :
      failedAt \in log[i].names /\ log[i].cause # "none"

\* C9: contentCommit never rejects: a failure of any stage is caught at the
\* top level, logged, and ends the run with no later stage started; the
\* promise resolves the same way after success, no-op and failure
PipelineFailed == outcome = "failed" /\ failedAt \notin {"start", "validate"}

C9_NeverRejects ==
  /\ ccResult # "rejected"
  /\ (pc = "done" /\ ccResult # "notCalled") => ccResult = "resolved"
  /\ PipelineFailed =>
       /\ pc = "done"
       /\ log[Len(log)].line = 298
       /\ log[Len(log)].cause # "none"
       /\ failedAt \in Stages => trace[Len(trace)] = failedAt

\* C9 witness: the build subprocess failed and the promise resolved
C9_Witness ==
  /\ outcome = "failed"
  /\ failedAt = "build"
  /\ ccResult = "resolved"

\* C10: every network and subprocess operation is attempted at most once
\* in a run; a failed merge leaves the pull request created and unmerged
C10_AtMostOnce ==
  /\ \A op \in Ops : calls[op] <= 1
  /\ failedAt = "merge" =>
       /\ calls["merge"] = 1
       /\ \E pr \in prs : pr.number = pullNumber /\ ~pr.merged
       /\ \E b \in remoteBranches : b.name = publishBranch.name

\* C10 witness: the merge call failed
C10_Witness ==
  /\ failedAt = "merge"
  /\ calls["merge"] = 1
  /\ calls["createPR"] = 1


\* C11: validateInput checks, in this order, base, url, username, password
\* and script non-empty, then makes one remote ref-listing call and tests
\* that base is among the refs, then checks the scratch directory; the
\* first failing check determines the error, and the remote call is made
\* if and only if the five field checks passed
FieldsPresent ==
  /\ props.base # "" /\ props.gitUrl # << >> /\ props.gitUsername # ""
  /\ props.gitPassword # "" /\ props.script # ""

ValidationError == log[Len(log)].cause

FailedWith(msg) ==
  /\ outcome = "failed" /\ failedAt = "validate" /\ Len(log) = 1
  /\ ValidationError = msg

C11_ValidationOrder ==
  validated.done =>
    /\ calls["listServerRefs"] = (IF FieldsPresent THEN 1 ELSE 0)
    /\ props.base = "" => FailedWith("Missing base branch name")
    /\ (props.base # "" /\ props.gitUrl = << >>) => FailedWith("Missing repo url")
    /\ (props.base # "" /\ props.gitUrl # << >> /\ props.gitUsername = "") =>
         FailedWith("Missing username")
    /\ (props.base # "" /\ props.gitUrl # << >> /\ props.gitUsername # ""
        /\ props.gitPassword = "") => FailedWith("Missing password")
    /\ (props.base # "" /\ props.gitUrl # << >> /\ props.gitUsername # ""
        /\ props.gitPassword # "" /\ props.script = "") =>
         FailedWith("Missing script")
    /\ (FieldsPresent /\ validated.listing.throws) => FailedWith("lib")
    /\ (FieldsPresent /\ ~validated.listing.throws) =>
         IF ServerRef(props.base) \notin validated.listing.refs
         THEN FailedWith("Base branch does not exist")
         ELSE IF props.tempPath = "" THEN FailedWith("Missing tempPath")
         ELSE IF ~validated.exists THEN FailedWith("Temp path does not exist")
         ELSE IF ~validated.writable THEN FailedWith("Temp path is not writable")
         ELSE pc = "clone" /\ outcome = "running"

\* C11 witness: base and script are both empty, the scratch directory is
\* missing: the error is the one of base and no remote call was made
C11_Witness ==
  /\ validated.done
  /\ props.base = "" /\ props.script = "" /\ ~validated.exists
  /\ FailedWith("Missing base branch name")
  /\ calls["listServerRefs"] = 0


\* C12: for every SSH-style url git@H:O/R.git, getRepoInfo yields owner O
\* and repo R, and getGitWebUrl yields https://H/O/R.git
C12_SshResolved ==
  resolver.shape = "ssh" =>
    /\ resolver.info # PendingInfo =>
         resolver.info = [owner |-> resolver.owner, repo |-> resolver.repo]
    /\ resolver.web # PendingUrl =>
         resolver.web = HttpsScheme \o resolver.host \o <<"/">>
                          \o resolver.owner \o <<"/">> \o resolver.repo \o DotGit

\* C13: for every url https://H/O/R and https://H/O/R.git, getRepoInfo
\* yields owner O and repo R (without the .git suffix), and getGitWebUrl
\* yields the url unchanged
C13_HttpsResolved ==
  resolver.shape = "https" =>
    /\ resolver.info # PendingInfo =>
         resolver.info = [owner |-> resolver.owner, repo |-> resolver.repo]
    /\ resolver.web # PendingUrl => resolver.web = resolver.url

\* C14: a url of neither shape is rejected by getGitWebUrl and by
\* getRepoInfo: neither returns a canonical url or an owner/repo pair
C14_OtherRejected ==
  resolver.shape = "other" =>
    /\ resolver.web # PendingUrl => resolver.web = InvalidGitUrl
    /\ resolver.info # PendingInfo => resolver.info = InvalidRepoInfo


\* C15: the git password/token is never written to the logged output: on
\* every path of a run, also when the create or the merge call fails and
\* its error object is logged by the top-level catch, nothing logged holds
\* the credential
C15_NoCredentialLogged ==
  \A r \in LoggedRequests : props.gitPassword \notin TokensIn(r)

\* C16: the create request is a POST to /repos/{owner}/{repo}/pulls whose
\* body is exactly {owner, repo, title, body, head, base}, head the publish
\* branch and base the validated base; the create and the merge request
\* carry the bearer Authorization, the JSON content type and the vendor
\* accept value as request headers, not as body fields
C16_RequestShape ==
  \A i \in 1..Len(requests) :
    /\ AuthHeaders(props.gitPassword) \subseteq requests[i].headers
    /\ "headers" \notin DOMAIN requests[i].data
    /\ requests[i].method = "POST" =>
         /\ requests[i].url =
              <<ApiRoot, "repos", getRepoInfo(props.gitUrl).owner,
                getRepoInfo(props.gitUrl).repo, "pulls">>
         /\ DOMAIN requests[i].data =
              {"owner", "repo", "title", "body", "head", "base"}
         /\ requests[i].data.head = publishBranch.name
         /\ requests[i].data.base = props.base
         /\ ServerRef(props.base) \in validated.listing.refs


\* C17: the publish branch name is content-publish-<8 digits>-<epoch
\* milliseconds>, and the 8 digits are the UTC calendar date (YYYYMMDD) of
\* that instant, for every instant and every time zone of the process
\* the UTC date of an instant of January 1970
UtcDateOfJanuary1970(now) ==
  <<1, 9, 7, 0, 0, 1, (now \div MsPerDay + 1) \div 10, (now \div MsPerDay + 1) % 10>>

C17_NameHasUtcDate ==
  naming.name # NoNaming.name =>
    /\ naming.name[1] = "content-publish"
    /\ Len(naming.name[2]) = 8
    /\ \A i \in 1..8 : naming.name[2][i] \in 0..9
    /\ naming.name[3] = naming.now
    /\ naming.name[2] = UtcDateOfJanuary1970(naming.now)

\* the ChangeSet of run r has been computed and the run went on from it
Decided(r) ==
  \/ runs[r].pc \in {"commit", "push", "createPR", "merge"}
  \/ runs[r].outcome \in {"noop", "success"}

\* C18: a run against a repository whose base branch already holds the
\* content the script writes under the content path (no content change since
\* it was published) is a no-op: it commits nothing, pushes no branch and
\* opens no pull request, so two such runs leave no duplicate commit or PR.
C18_TwoNoops ==
  \A r \in Runners :
    (/\ Decided(r)
     /\ {f \in runs[r].content : UnderPath(f, props.path)} \subseteq
          runs[r].baseTree)
    => (/\ runs[r].outcome = "noop"
        /\ runs[r].committed = {}
        /\ runs[r].number = NoNumber)

\* C19: two concurrent runs have different scratch directories, every clone,
\* branch, build, diff, commit and push of a run works in its own directory
\* and never in the other's, and two equal publish branch names were
\* computed in the same millisecond.
C19_OwnWorkspace ==
  \A r \in Runners : \A o \in Runners \ {r} :
    /\ (runs[r].dir # NoDir /\ runs[o].dir # NoDir) => runs[r].dir # runs[o].dir
    /\ \A a \in accesses :
         a.run = r => (a.dir = runs[r].dir /\ a.dir # runs[o].dir)
    /\ (/\ runs[r].name # NoNaming.name
        /\ runs[r].name = runs[o].name) => runs[r].namedAt = runs[o].namedAt

\* both runs worked in their directories and opened pull requests with
\* different head branches against the same base
C19_Witness ==
  /\ \A r \in Runners : \E a \in accesses : a.run = r /\ a.op = "commit"
  /\ \E p1 \in prs : \E p2 \in prs :
       /\ p1.number # p2.number
       /\ p1.base = p2.base
       /\ p1.head # p2.head

\* a run that ended before git.push: it failed at a stage before push, or
\* it found an empty ChangeSet, or its commit was reported as failed
BeforePush ==
  {"start", "validate", "repoInfo", "clone", "branch", "build", "diff", "commit"}

StoppedBeforePush ==
  \/ outcome = "failed" /\ failedAt \in BeforePush
  \/ outcome = "noop"
  \/ \E i \in 1..Len(log) : log[i].line = 234

\* C20: the remote changes only by push, create PR and merge PR: without a
\* push the remote has no new branch, without a create-PR request no new
\* pull request, without a merge request no merged pull request; a run that
\* failed or stopped before push left branches, commits and pull requests of
\* the remote as they were, and no step changes the remote's own refs.
C20_RemoteFrame ==
  /\ calls["push"] = 0 => remoteBranches = {}
  /\ calls["createPR"] = 0 => prs = {}
  /\ calls["merge"] = 0 => \A pr \in prs : ~pr.merged
  /\ StoppedBeforePush =>
       /\ pc = "done"
       /\ remoteBranches = {}
       /\ prs = {}

\* C20 witness: a run that cloned, branched, built and staged files, whose
\* git.commit then threw
C20_Witness ==
  /\ outcome = "failed"
  /\ failedAt = "commit"
  /\ staged # {}
  /\ calls["commit"] = 1
  /\ remoteBranches = {}
  /\ prs = {}

====
